---- MODULE Spec2Model ----
(***************************************************************************)
(* A model of ngsutils/sequence.py: the quality-weighted consensus caller  *)
(* (call_consensus_with_qualities) and the whitelist corrector             *)
(* (correct_sequences_to_whitelist).                                       *)
(*                                                                         *)
(* A sequence is a tuple of one-character strings; its array form (the     *)
(* boolean [4 x L] matrix of _sequence_to_array) is a tuple of columns,    *)
(* each column the set of strict-base indices 1..4 (A,C,G,T) that are True.*)
(* A quality array is a tuple of naturals.  Indices are 1-based; labels    *)
(* (cluster ids) keep the 0-based values of the source.                    *)
(***************************************************************************)
EXTENDS Integers, Sequences, FiniteSets, TLC

VARIABLES
    sequences,          \* input: the reads
    qualities,          \* input: one quality array per read
    pc,                 \* position in the function being run
    \* call_consensus_with_qualities
    q_threshold,        \* input
    proportion,         \* input, in hundredths (5 is 0.05)
    consensuses,        \* list of consensus strings
    assignments,        \* label of every read, -1 while unassigned
    index_transform,    \* pool index -> index in the input
    pool_sequences,     \* _sequences_arrays: the still unassigned pool
    pool_qualities,     \* _qualities_arrays
    rounds,             \* iterations of the while loop so far
    \* correct_sequences_to_whitelist
    whitelist,          \* input
    d,                  \* input: maximum distance
    confidence,         \* input, in hundredths (90 is 0.9)
    n_threads,          \* input
    dispatched,         \* parallel map: number of tasks handed to a worker
    running,            \* parallel map: tasks being computed
    finished,           \* parallel map: tasks in the order they completed
    results,            \* parallel map: the output slot of every task
    mismatch_cache,     \* unique read index -> (indices, masks)
    whitelist_counts,
    matches,            \* unique read index -> whitelist index, 0 if absent
    corrections,        \* per read: whitelist index, 0 is None
    i                   \* loop counter of the loop being run

consVars == <<q_threshold, proportion, consensuses, assignments,
              index_transform, pool_sequences, pool_qualities, rounds>>

wlVars == <<whitelist, d, confidence, n_threads, dispatched, running,
            finished, results, mismatch_cache, whitelist_counts, matches,
            corrections, i>>

vars == <<sequences, qualities, pc, consVars, wlVars>>

----------------------------------------------------------------------------
(* Bounds of the model *)

\* call_consensus_with_qualities: number of reads, total number of bases
MaxReads == 3
MaxBases == 5
\* call_consensus_with_qualities on one read: its length
MaxSingleLen == 2
\* correct_sequences_to_whitelist: number of reads, of whitelist entries
MaxWlReads == 2
MaxWhitelist == 2

----------------------------------------------------------------------------
(* Alphabet tables *)

NUCLEOTIDES_STRICT == <<"A", "C", "G", "T">>

NUCLEOTIDES_PERMISSIVE == <<"R", "Y", "S", "W", "K", "M", "B", "D", "H", "V", "N">>

NUCLEOTIDES == NUCLEOTIDES_STRICT \o NUCLEOTIDES_PERMISSIVE

Range(s) == {s[k] : k \in DOMAIN s}

NUCLEOTIDES_AMBIGUOUS(n) ==
    CASE n = "N" -> {"A", "C", "G", "T"}
      [] n = "R" -> {"A", "G"}
      [] n = "Y" -> {"C", "T"}
      [] n = "S" -> {"G", "C"}
      [] n = "W" -> {"A", "T"}
      [] n = "K" -> {"G", "T"}
      [] n = "M" -> {"A", "C"}
      [] n = "B" -> {"C", "G", "T"}
      [] n = "D" -> {"A", "G", "T"}
      [] n = "H" -> {"A", "C", "T"}
      [] n = "V" -> {"A", "C", "G"}
      [] OTHER -> {n}

\* The column of the boolean matrix for nucleotide n: the strict indices set.
NUCLEOTIDE_MASKS(n) ==
    {b \in 1..4 : NUCLEOTIDES_STRICT[b] \in NUCLEOTIDES_AMBIGUOUS(n)}

\* str.upper() on one character
Upper(c) ==
    CASE c = "a" -> "A"
      [] c = "c" -> "C"
      [] c = "g" -> "G"
      [] c = "t" -> "T"
      [] c = "n" -> "N"
      [] c = "r" -> "R"
      [] c = "y" -> "Y"
      [] OTHER -> c

Max2(a, b) == IF a >= b THEN a ELSE b

SetMin(S) == CHOOSE x \in S : \A y \in S : x <= y

RECURSIVE SumSeq(_)
SumSeq(s) == IF s = <<>> THEN 0 ELSE s[1] + SumSeq(Tail(s))

\* The function f on 1..n as an explicit tuple (an evaluated numpy array).
RECURSIVE Tup(_, _)
Tup(f, n) == IF n = 0 THEN <<>> ELSE Append(Tup(f, n - 1), f[n])

----------------------------------------------------------------------------
(* Encoder *)

SequenceToArray(sequence, l) ==
    Tup([pos \in 1..l |->
            IF pos <= Len(sequence)
            THEN NUCLEOTIDE_MASKS(Upper(sequence[pos]))
            ELSE {}], l)

QualitiesToArray(quals, l) ==
    Tup([pos \in 1..l |-> IF pos <= Len(quals) THEN quals[pos] ELSE 0], l)

SetMax(S) == CHOOSE x \in S : \A y \in S : x >= y

\* Mutant: ties between True rows go to the last row.
BoolArgmaxLast(col) == IF col = {} THEN 1 ELSE SetMax(col)

\* numpy argmax along axis 0 of a boolean column: the first True row, row 0
\* (here 1) when no row is True.
BoolArgmax(col) == IF col = {} THEN 1 ELSE SetMin(col)

\* Mutant: ties between maximal rows go to the last row.
IntArgmaxLast(col) ==
    SetMax({b \in 1..4 : \A b2 \in 1..4 : col[b] >= col[b2]})

\* numpy argmax along axis 0 of an integer column: the first row holding the
\* maximum.
IntArgmax(col) ==
    SetMin({b \in 1..4 : \A b2 \in 1..4 : col[b] >= col[b2]})

\* _most_likely_sequence applied to the boolean array of one sequence
MostLikelySequenceOfArray(arr) ==
    Tup([pos \in 1..Len(arr) |-> NUCLEOTIDES_STRICT[BoolArgmax(arr[pos])]],
        Len(arr))

MostLikelySequence(positional_probs) ==
    Tup([pos \in 1..Len(positional_probs) |->
            NUCLEOTIDES_STRICT[IntArgmax(positional_probs[pos])]],
        Len(positional_probs))

RECURSIVE ColumnSum(_, _, _, _, _)
ColumnSum(seqs, quals, pos, b, k) ==
    IF k = 0 THEN 0
    ELSE ColumnSum(seqs, quals, pos, b, k - 1)
         + (IF b \in seqs[k][pos] THEN quals[k][pos] ELSE 0)

CalculatePositionalProbs(seqs, quals) ==
    Tup([pos \in 1..Len(seqs[1]) |->
            Tup([b \in 1..4 |-> ColumnSum(seqs, quals, pos, b, Len(seqs))], 4)],
        Len(seqs[1]))

----------------------------------------------------------------------------
(* Consensus caller *)

\* p = np.sum(qual[consensus_indices != seq.argmax(axis=0)])
MismatchCost(seq, qual, consensus_indices) ==
    SumSeq(Tup([pos \in 1..Len(seq) |->
                  IF consensus_indices[pos] # BoolArgmax(seq[pos])
                  THEN qual[pos] ELSE 0], Len(seq)))

\* boolean-mask indexing, arr[mask]
RECURSIVE MaskSelect(_, _, _)
MaskSelect(s, keep, k) ==
    IF k > Len(s) THEN <<>>
    ELSE IF keep[k] THEN <<s[k]>> \o MaskSelect(s, keep, k + 1)
    ELSE MaskSelect(s, keep, k + 1)

SelectSeq2(s, keep) == MaskSelect(s, keep, 1)

\* probs <= max(thresh, min(probs)); thresh is given times 100
AssignedMask(probs, thresh100) ==
    LET minp == SetMin(Range(probs))
    IN Tup([k \in 1..Len(probs) |->
                probs[k] * 100 <= Max2(thresh100, minp * 100)], Len(probs))

CallConsensus(seqs, quals, thresh100) ==
    IF Len(seqs) = 1
    THEN [consensus |-> MostLikelySequenceOfArray(seqs[1]),
          assigned |-> <<TRUE>>]
    ELSE
        LET positional_probs == CalculatePositionalProbs(seqs, quals)
            consensus_indices ==
                Tup([pos \in 1..Len(positional_probs) |->
                        IntArgmax(positional_probs[pos])],
                    Len(positional_probs))
            probs == Tup([k \in 1..Len(seqs) |->
                            MismatchCost(seqs[k], quals[k], consensus_indices)],
                         Len(seqs))
            assigned == AssignedMask(probs, thresh100)
        IN [consensus |->
                MostLikelySequence(CalculatePositionalProbs(
                    SelectSeq2(seqs, assigned), SelectSeq2(quals, assigned))),
            assigned |-> assigned]

\* l = max(len(s) for s in sequences)
MaxLength(seqs) ==
    CHOOSE n \in {Len(seqs[k]) : k \in DOMAIN seqs} :
        \A k \in DOMAIN seqs : Len(seqs[k]) <= n

\* threshold = q_threshold * (l * proportion), times 100
Threshold100 == q_threshold * (MaxLength(sequences) * proportion)

IndexOf(s, x) == SetMin({k \in DOMAIN s : s[k] = x})

Negate(mask) == Tup([k \in 1..Len(mask) |-> ~mask[k]], Len(mask))

\* Mutant: the new map sends a pool index to its index in the previous pool,
\* not to its index in the input.
NextIndexTransformStale(transform, assigned) ==
    SelectSeq2(Tup([k \in 1..Len(transform) |-> k], Len(transform)),
               Negate(assigned))

\* index_transform = {i: index_transform[j] for i, j in enumerate(unassigned)}
NextIndexTransform(transform, assigned) ==
    SelectSeq2(transform, Negate(assigned))

\* Mutant: the pool is not reduced.
RemainingPoolKeepAll(arrays, assigned) == arrays

\* _sequences_arrays[~assigned], _qualities_arrays[~assigned]
RemainingPool(arrays, assigned) == SelectSeq2(arrays, Negate(assigned))

\* The state of call_consensus_with_qualities on entering the while loop.
ConsStart ==
    /\ consensuses = <<>>
    /\ assignments = Tup([k \in 1..Len(sequences) |-> -1], Len(sequences))
    /\ index_transform = Tup([k \in 1..Len(sequences) |-> k], Len(sequences))
    /\ pool_sequences =
         Tup([k \in 1..Len(sequences) |->
                SequenceToArray(sequences[k], MaxLength(sequences))],
             Len(sequences))
    /\ pool_qualities =
         Tup([k \in 1..Len(sequences) |->
                QualitiesToArray(qualities[k], MaxLength(sequences))],
             Len(sequences))
    /\ rounds = 0
    /\ pc = "loop"

\* The variables of correct_sequences_to_whitelist while the consensus
\* caller runs.
WlIdle ==
    /\ whitelist = <<>>
    /\ d = 0
    /\ confidence = 0
    /\ n_threads = 0
    /\ dispatched = 0
    /\ running = {}
    /\ finished = <<>>
    /\ results = <<>>
    /\ mismatch_cache = <<>>
    /\ whitelist_counts = <<>>
    /\ matches = <<>>
    /\ corrections = <<>>
    /\ i = 0

\* A base call: a symbol and its quality.
ConsCalls == {<<"A", 40>>, <<"C", 10>>, <<"N", 10>>}

\* The ways to cut t bases into n reads of at least one base: the index of
\* the last base of every read.
Cuts(t, n) ==
    {c \in [1..n -> 1..t] :
        /\ c[n] = t
        /\ \A k \in 1..(n - 1) : c[k] < c[k + 1]}

Slice(flat, from, to) ==
    Tup([k \in 1..(to - from + 1) |-> flat[from + k - 1]], to - from + 1)

ReadOfCut(flat, c, k, field) ==
    LET from == IF k = 1 THEN 1 ELSE c[k - 1] + 1
        part == Slice(flat, from, c[k])
    IN Tup([p \in 1..Len(part) |-> part[p][field]], Len(part))

\* Every input of at most MaxReads reads and MaxBases bases in all, reads
\* of unequal lengths included (the shorter ones are padded).
ConsInit ==
    /\ \E n \in 1..MaxReads : \E t \in n..MaxBases :
         \E flat \in [1..t -> ConsCalls] : \E c \in Cuts(t, n) :
           /\ sequences = Tup([k \in 1..n |-> ReadOfCut(flat, c, k, 1)], n)
           /\ qualities = Tup([k \in 1..n |-> ReadOfCut(flat, c, k, 2)], n)
    /\ q_threshold = 30
    /\ proportion \in {0, 50}
    /\ ConsStart
    /\ WlIdle

SingleSymbols == Range(NUCLEOTIDES) \cup {"a", "n"}

\* One read, over the whole alphabet.
SingleInit ==
    /\ \E l \in 1..MaxSingleLen : \E s \in [1..l -> SingleSymbols] :
         \E q \in {0, 40} :
           /\ sequences = <<Tup(s, l)>>
           /\ qualities = <<Tup([p \in 1..l |-> q], l)>>
    /\ q_threshold = 30
    /\ proportion \in {5}
    /\ ConsStart
    /\ WlIdle

ExampleReads ==
    {<<"A", "A", "A", "A">>, <<"A", "A", "A", "T">>, <<"C", "C", "C", "C">>}

\* Three reads of the example, each with one quality at every base.
ExampleInit ==
    /\ sequences \in [1..3 -> ExampleReads]
    /\ \E q \in [1..3 -> {10, 40}] :
         qualities = Tup([k \in 1..3 |-> <<q[k], q[k], q[k], q[k]>>], 3)
    /\ q_threshold = 30
    /\ proportion = 5
    /\ ConsStart
    /\ WlIdle

\* One iteration of the while loop of call_consensus_with_qualities.
ConsensusRound ==
    /\ pc = "loop"
    /\ LET r == CallConsensus(pool_sequences, pool_qualities, Threshold100)
           known == r.consensus \in Range(consensuses)
           label == IF known THEN IndexOf(consensuses, r.consensus) - 1
                    ELSE Len(consensuses)
           assigned_global ==
               {index_transform[k] : k \in {j \in 1..Len(r.assigned) : r.assigned[j]}}
       IN /\ consensuses' = IF known THEN consensuses
                            ELSE Append(consensuses, r.consensus)
          /\ assignments' = Tup([k \in 1..Len(assignments) |->
                                    IF k \in assigned_global THEN label
                                    ELSE assignments[k]], Len(assignments))
          /\ rounds' = rounds + 1
          /\ IF \A k \in 1..Len(r.assigned) : r.assigned[k]
             THEN /\ pc' = "done"
                  /\ UNCHANGED <<index_transform, pool_sequences, pool_qualities>>
             ELSE /\ pc' = "loop"
                  /\ index_transform' =
                        NextIndexTransform(index_transform, r.assigned)
                  /\ pool_sequences' = RemainingPool(pool_sequences, r.assigned)
                  /\ pool_qualities' = RemainingPool(pool_qualities, r.assigned)
    /\ UNCHANGED <<sequences, qualities, q_threshold, proportion, wlVars>>

ConsNext == ConsensusRound

SpecConsensus == ConsInit /\ [][ConsNext]_vars

SpecSingle == SingleInit /\ [][ConsNext]_vars

SpecExample == ExampleInit /\ [][ConsNext]_vars

----------------------------------------------------------------------------
(* Distance engine *)

\* _mismatch_mask: True where the two columns share no strict base
MismatchMask(sequence1, sequence2) ==
    Tup([pos \in 1..Len(sequence1) |-> sequence1[pos] \cap sequence2[pos] = {}],
        Len(sequence1))

\* mask.sum()
RECURSIVE MaskSum(_)
MaskSum(mask) ==
    IF mask = <<>> THEN 0
    ELSE (IF mask[1] THEN 1 ELSE 0) + MaskSum(Tail(mask))

\* Mutant: a whitelist entry one mismatch too far is kept.
RECURSIVE MismatchMasksOffByOne(_, _, _)
MismatchMasksOffByOne(sequence, whitelist_arrays, dist) ==
    IF whitelist_arrays = <<>> THEN [indices |-> <<>>, masks |-> <<>>]
    ELSE
        LET n == Len(whitelist_arrays)
            rest == MismatchMasksOffByOne(sequence, SubSeq(whitelist_arrays, 1, n - 1), dist)
            mask == MismatchMask(sequence, whitelist_arrays[n])
        IN IF MaskSum(mask) > dist + 1 THEN rest
           ELSE [indices |-> Append(rest.indices, n),
                 masks |-> Append(rest.masks, mask)]

\* _mismatch_masks: the whitelist entries within dist of the sequence, in
\* whitelist order, each with its mismatch mask
RECURSIVE MismatchMasks(_, _, _)
MismatchMasks(sequence, whitelist_arrays, dist) ==
    IF whitelist_arrays = <<>> THEN [indices |-> <<>>, masks |-> <<>>]
    ELSE
        LET n == Len(whitelist_arrays)
            rest == MismatchMasks(sequence, SubSeq(whitelist_arrays, 1, n - 1), dist)
            mask == MismatchMask(sequence, whitelist_arrays[n])
        IN IF MaskSum(mask) > dist THEN rest
           ELSE [indices |-> Append(rest.indices, n),
                 masks |-> Append(rest.masks, mask)]

\* hamming_distance of two strings of one length
HammingDistance(sequence1, sequence2) ==
    MaskSum(MismatchMask(SequenceToArray(sequence1, Len(sequence1)),
                         SequenceToArray(sequence2, Len(sequence2))))

----------------------------------------------------------------------------
(* Whitelist corrector *)

None == <<>>

\* The characters in the order of their code points (the order of sorted()).
CodePointOrder ==
    <<"A", "B", "C", "D", "G", "H", "K", "M", "N", "R", "S", "T", "V", "W",
      "Y", "a", "c", "g", "n", "r", "t", "y">>

CharRank(c) == CHOOSE k \in DOMAIN CodePointOrder : CodePointOrder[k] = c

RECURSIVE StrLess(_, _)
StrLess(a, b) ==
    IF a = <<>> THEN b # <<>>
    ELSE IF b = <<>> THEN FALSE
    ELSE IF a[1] = b[1] THEN StrLess(Tail(a), Tail(b))
    ELSE CharRank(a[1]) < CharRank(b[1])

RECURSIVE SortStrings(_)
SortStrings(S) ==
    IF S = {} THEN <<>>
    ELSE LET m == CHOOSE x \in S : \A y \in S \ {x} : StrLess(x, y)
         IN <<m>> \o SortStrings(S \ {m})

\* counts = Counter(sequences); counts[s] is 0 for a string that is no read
Count(s) == Cardinality({k \in 1..Len(sequences) : sequences[k] = s})

\* unique_sequences = sorted(counts.keys())
UniqueSequences == SortStrings(Range(sequences))

UniqueIndex(s) == IndexOf(UniqueSequences, s)

WhitelistArrays ==
    Tup([k \in 1..Len(whitelist) |->
            SequenceToArray(whitelist[k], Len(whitelist[k]))], Len(whitelist))

\* The task of one worker: delayed(_mismatch_masks)(_sequence_to_array(seq),
\* whitelist_arrays, d=d) for the u-th distinct read
WorkerTask(u) ==
    MismatchMasks(SequenceToArray(UniqueSequences[u], Len(UniqueSequences[u])),
                  WhitelistArrays, d)

NoResult == [indices |-> <<>>, masks |-> <<>>]

\* Mutant: the results are taken in the order the workers completed them.
EnumeratedResultAsCompleted(u) == results[finished[u]]

\* The u-th (indices, masks) pair the for loop takes from the parallel map,
\* which returns its results in the order of its inputs.
EnumeratedResult(u) == results[u]

\* match_indices = indices[masks.sum(axis=1) == 0]
MatchIndices(res) ==
    SelectSeq2(res.indices,
               Tup([k \in 1..Len(res.masks) |-> MaskSum(res.masks[k]) = 0],
                   Len(res.masks)))

\* Mutant: no exact match is recorded.
NewMatchNever(match_indices) == None

\* if len(match_indices) == 1: matches[...] = whitelist[match_indices[0]]
NewMatch(match_indices) ==
    IF Len(match_indices) = 1 THEN whitelist[match_indices[1]] ELSE None

\* whitelist_counts[i] += counts[whitelist[i]] / len(match_indices), stored
\* into an integer array: the sum is truncated
AddCounts(cnts, match_indices) ==
    Tup([w \in 1..Len(cnts) |->
            IF w \in Range(match_indices)
            THEN cnts[w] + (Count(whitelist[w]) \div Len(match_indices))
            ELSE cnts[w]], Len(cnts))

\* The body of the first for loop for the u-th distinct read: the new
\* (whitelist_counts, matches entry).
ConsumeOne(cnts, res) ==
    IF Len(res.indices) = 0
    THEN [counts |-> cnts, match |-> None]
    ELSE [counts |-> AddCounts(cnts, MatchIndices(res)),
          match |-> NewMatch(MatchIndices(res))]

\* whitelist_pseudo = sum(whitelist_counts) + len(whitelist)
WhitelistPseudo(cnts) == SumSeq(cnts) + Len(cnts)

\* whitelist_log10_proportions = log10((whitelist_counts + 1) / pseudo), kept
\* as the numerators count + 1: the denominator is the same positive number
\* for every entry.
WhitelistProportions(cnts) == Tup([w \in 1..Len(cnts) |-> cnts[w] + 1], Len(cnts))

RECURSIVE Pow10(_)
Pow10(n) == IF n = 0 THEN 1 ELSE 10 * Pow10(n - 1)

Min2(a, b) == IF a <= b THEN a ELSE b

\* A likelihood m * 10^(-e / 10) / pseudo is the record [m, e]; every
\* quality is a multiple of 10, so e / 10 is a natural number.
\* lik1 > lik2; m stays below 10^6, so a gap of six decades or more decides.
LikGreater(lik1, lik2) ==
    LET e1 == lik1.e \div 10
        e2 == lik2.e \div 10
    IN IF e1 <= e2
       THEN lik1.m * Pow10(Min2(e2 - e1, 6)) > lik2.m
       ELSE lik1.m > lik2.m * Pow10(Min2(e1 - e2, 6))

MaxE(liks) == SetMax({liks[k].e \div 10 : k \in 1..Len(liks)})

\* sum of the likelihoods, times 10^MaxE(liks)
LikSum(liks) ==
    SumSeq(Tup([k \in 1..Len(liks) |->
                  liks[k].m * Pow10(MaxE(liks) - (liks[k].e \div 10))],
               Len(liks)))

\* max_log10_likelihood - log10(sum(10 ^ log10_likelihoods)) >= log10(c),
\* c in hundredths
ConfidenceAtLeast(best, liks, c) ==
    best.m * Pow10(MaxE(liks) - (best.e \div 10)) * 100 >= c * LikSum(liks)

\* masks.reshape(1, -1): one row holding the rows of masks end to end
RECURSIVE Flatten(_)
Flatten(masks) ==
    IF masks = <<>> THEN <<>> ELSE masks[1] \o Flatten(Tail(masks))

Reshape1(masks) == <<Flatten(masks)>>

\* qualities[mask].sum(): the mask may be longer than the qualities, and a
\* True position past their end reads whatever byte lies there (oob).
RECURSIVE MaskedQualitySum(_, _, _, _)
MaskedQualitySum(quals, mask, oob, p) ==
    IF p > Len(mask) THEN 0
    ELSE (IF ~mask[p] THEN 0
          ELSE IF p <= Len(quals) THEN quals[p]
          ELSE oob[p])
         + MaskedQualitySum(quals, mask, oob, p + 1)

\* The log10_likelihoods of _correct_to_whitelist: zip(indices, masks) stops
\* at the shorter of the two.
EditLikelihoods(quals, indices, masks, proportions, oob) ==
    LET n == Min2(Len(indices), Len(masks))
    IN Tup([k \in 1..n |->
              [m |-> proportions[indices[k]],
               e |-> MaskedQualitySum(quals, masks[k], oob, 1)]], n)

\* The position of the first likelihood no other exceeds (the loop replaces
\* the best only by a strictly greater one), 0 for an empty list.
ArgBest(liks) ==
    IF liks = <<>> THEN 0
    ELSE SetMin({k \in 1..Len(liks) :
                    \A k2 \in 1..Len(liks) : ~LikGreater(liks[k2], liks[k])})

\* _correct_to_whitelist: best_bc (-1 for none) and whether
\* log10_confidence >= log10(c)
CorrectToWhitelist(quals, indices, masks, proportions, oob, c) ==
    LET liks == EditLikelihoods(quals, indices, masks, proportions, oob)
        b == ArgBest(liks)
    IN IF b = 0
       THEN [best_bc |-> -1, confident |-> 0 >= c - 100]
       ELSE [best_bc |-> indices[b],
             confident |-> ConfidenceAtLeast(liks[b], liks, c)]

\* The masks argument of the call: mismatch_cache[seq][1].reshape(1, -1)
MasksArgument(masks) == Reshape1(masks)

\* The body of the second for loop for read k that has no correction yet.
CorrectOne(k, cache, cnts, oob) ==
    LET entry == cache[UniqueIndex(sequences[k])]
        r == CorrectToWhitelist(qualities[k], entry.indices,
                                MasksArgument(entry.masks),
                                WhitelistProportions(cnts), oob, confidence)
    IN IF r.best_bc >= 1 /\ r.confident THEN whitelist[r.best_bc] ELSE None

\* The variables of call_consensus_with_qualities while the whitelist
\* corrector runs.
ConsIdle ==
    /\ q_threshold = 0
    /\ proportion = 0
    /\ consensuses = <<>>
    /\ assignments = <<>>
    /\ index_transform = <<>>
    /\ pool_sequences = <<>>
    /\ pool_qualities = <<>>
    /\ rounds = 0

\* The state of correct_sequences_to_whitelist once its input has passed the
\* checks and the parallel map is about to start.
WlStart ==
    /\ dispatched = 0
    /\ running = {}
    /\ finished = <<>>
    /\ results = Tup([u \in 1..Len(UniqueSequences) |-> NoResult],
                     Len(UniqueSequences))
    /\ mismatch_cache = <<>>
    /\ whitelist_counts = Tup([w \in 1..Len(whitelist) |-> 0], Len(whitelist))
    /\ matches = <<>>
    /\ corrections = Tup([k \in 1..Len(sequences) |-> None], Len(sequences))
    /\ i = 1
    /\ pc = "parallel"

WlReadSymbols == {"A", "G", "N"}

WlWhitelistSymbols == {"A", "C", "N"}

WlQuals == {10, 20}

WlLengths == {1}

\* The bytes a read past the end of a quality array may find.
OobBytes == {0, 250}

\* n_threads: one worker, or several
ThreadCounts == {1, 2}

Injective(w) == \A a, b \in DOMAIN w : a # b => w[a] # w[b]

\* Every valid input within the bounds: reads and whitelist entries of one
\* length, no whitelist entry twice.
WlInit ==
    /\ \E l \in WlLengths :
         /\ \E n \in 1..MaxWlReads :
              /\ \E s \in [1..n -> [1..l -> WlReadSymbols]] :
                   sequences = Tup([k \in 1..n |-> Tup(s[k], l)], n)
              /\ \E q \in [1..n -> [1..l -> WlQuals]] :
                   qualities = Tup([k \in 1..n |-> Tup(q[k], l)], n)
         /\ \E m \in 1..MaxWhitelist :
              \E w \in [1..m -> [1..l -> WlWhitelistSymbols]] :
                /\ Injective(w)
                /\ whitelist = Tup([k \in 1..m |-> Tup(w[k], l)], m)
    /\ d \in {0, 1}
    /\ confidence \in {60, 90}
    /\ n_threads \in ThreadCounts
    /\ WlStart
    /\ ConsIdle

\* The parallel map hands the next task, in input order, to a free worker.
WorkerStart ==
    /\ pc = "parallel"
    /\ dispatched < Len(UniqueSequences)
    /\ Cardinality(running) < n_threads
    /\ dispatched' = dispatched + 1
    /\ running' = running \cup {dispatched + 1}
    /\ UNCHANGED <<sequences, qualities, pc, consVars, whitelist, d,
                   confidence, n_threads, finished, results, mismatch_cache,
                   whitelist_counts, matches, corrections, i>>

\* A worker completes its task and writes its own output slot; the map
\* returns once every task is complete.
WorkerFinish(u) ==
    /\ pc = "parallel"
    /\ u \in running
    /\ running' = running \ {u}
    /\ results' = [results EXCEPT ![u] = WorkerTask(u)]
    /\ finished' = Append(finished, u)
    /\ pc' = IF Len(finished') = Len(UniqueSequences) THEN "consume"
             ELSE "parallel"
    /\ UNCHANGED <<sequences, qualities, consVars, whitelist, d, confidence,
                   n_threads, dispatched, mismatch_cache, whitelist_counts,
                   matches, corrections, i>>

\* One iteration of the first for loop, and after the last one the loop that
\* copies the exact matches into corrections.
ConsumeResult ==
    /\ pc = "consume"
    /\ LET res == EnumeratedResult(i)
           one == ConsumeOne(whitelist_counts, res)
       IN /\ mismatch_cache' = Append(mismatch_cache, res)
          /\ whitelist_counts' = one.counts
          /\ matches' = Append(matches, one.match)
    /\ IF i = Len(UniqueSequences)
       THEN /\ pc' = "correct"
            /\ i' = 1
            /\ corrections' =
                 Tup([k \in 1..Len(sequences) |->
                        matches'[UniqueIndex(sequences[k])]], Len(sequences))
       ELSE /\ pc' = "consume"
            /\ i' = i + 1
            /\ UNCHANGED corrections
    /\ UNCHANGED <<sequences, qualities, consVars, whitelist, d, confidence,
                   n_threads, dispatched, running, finished, results>>

\* The positions past the end of the qualities that the masks argument of
\* read k reaches.
OobPositions(k) ==
    (Len(qualities[k]) + 1) ..
        Len(Flatten(mismatch_cache[UniqueIndex(sequences[k])].masks))

\* One iteration of the second for loop.
CorrectSequence ==
    /\ pc = "correct"
    /\ IF corrections[i] # None
       THEN UNCHANGED corrections
       ELSE \E oob \in [OobPositions(i) -> OobBytes] :
              corrections' =
                [corrections EXCEPT
                    ![i] = CorrectOne(i, mismatch_cache, whitelist_counts, oob)]
    /\ IF i = Len(sequences)
       THEN pc' = "done" /\ UNCHANGED i
       ELSE pc' = "correct" /\ i' = i + 1
    /\ UNCHANGED <<sequences, qualities, consVars, whitelist, d, confidence,
                   n_threads, dispatched, running, finished, results,
                   mismatch_cache, whitelist_counts, matches>>

WlNext ==
    \/ WorkerStart
    \/ \E u \in 1..Len(UniqueSequences) : WorkerFinish(u)
    \/ ConsumeResult
    \/ CorrectSequence

SpecWhitelist == WlInit /\ [][WlNext]_vars

----------------------------------------------------------------------------
(* Properties of call_consensus_with_qualities *)

ClusterSize(label) ==
    Cardinality({k \in 1..Len(assignments) : assignments[k] = label})

ClusterSizeSum ==
    SumSeq(Tup([c \in 1..Len(consensuses) |-> ClusterSize(c - 1)],
               Len(consensuses)))

FullyAssigned ==
    /\ Len(assignments) = Len(sequences)
    /\ \A k \in 1..Len(assignments) :
         /\ assignments[k] # -1
         /\ assignments[k] \in 0..(Len(consensuses) - 1)
    /\ ClusterSizeSum = Len(sequences)

LabelsKept ==
    \A k \in 1..Len(assignments) :
        assignments[k] # -1 => assignments'[k] = assignments[k]

\* C5: when call_consensus_with_qualities returns, the assignment vector has
\* one entry per read, none of them -1, every entry indexes the consensus
\* list and the cluster sizes sum to the number of reads; a label, once
\* written, is never overwritten by a later round.
C5_AssignmentComplete ==
    /\ [](pc = "done" => FullyAssigned)
    /\ [][LabelsKept]_vars

\* C5 witness: a run of three rounds over three reads has returned.
C5_Witness ==
    /\ pc = "done"
    /\ Len(sequences) = 3
    /\ rounds = 3

\* C8: the while loop runs at most N times for N reads: every round assigns
\* at least one member of the pool, so rounds plus pool size never exceeds
\* N and the pool is never empty on entering a round.
C8_AtMostNRounds ==
    /\ rounds <= Len(sequences)
    /\ pc = "loop" =>
         /\ Len(pool_sequences) >= 1
         /\ rounds + Len(pool_sequences) <= Len(sequences)

\* C8 witness: a round in which the cheapest member costs more than the
\* configured threshold and is assigned all the same, the loop going on.
C8_Witness ==
    /\ pc = "loop"
    /\ rounds >= 1
    /\ Threshold100 = 0
    /\ Len(pool_sequences) >= 1
    /\ Len(pool_sequences) < Len(sequences)
    /\ \E k \in 1..Len(assignments) : assignments[k] # -1 /\ qualities[k][1] > 0

Uniform(k, q) == qualities[k] = <<q, q, q, q>>

IsExample ==
    /\ sequences = <<<<"A", "A", "A", "A">>, <<"A", "A", "A", "T">>,
                     <<"C", "C", "C", "C">>>>
    /\ \A k \in 1..3 : Uniform(k, 40)
    /\ q_threshold = 30
    /\ proportion = 5

\* C6 as stated: on ["AAAA","AAAT","CCCC"], quality 40 everywhere,
\* q_threshold 30 and proportion 0.05, two clusters are returned, reads 0 and
\* 1 sharing one and read 2 alone in the other.
C6_ExampleTwoClusters ==
    (IsExample /\ pc = "done") =>
        /\ Len(consensuses) = 2
        /\ assignments[1] = assignments[2]
        /\ assignments[3] # assignments[1]

\* C6 as amended: on that input three clusters are returned, AAAA, AAAT and
\* CCCC in this order, every read alone in its own (assignments 0, 1, 2).
C6_ExampleThreeClusters ==
    (IsExample /\ pc = "done") =>
        /\ consensuses = <<<<"A", "A", "A", "A">>, <<"A", "A", "A", "T">>,
                           <<"C", "C", "C", "C">>>>
        /\ assignments = <<0, 1, 2>>

\* C6 witness: the call on the example has returned.
C6_Witness == IsExample /\ pc = "done"

\* C9 as stated: on one read the consensus list holds that read unchanged
\* and the assignment vector is [0].
C9_SingleUnchanged ==
    (Len(sequences) = 1 /\ pc = "done") =>
        /\ consensuses = <<sequences[1]>>
        /\ assignments = <<0>>

StrictIndex(b) == CHOOSE k \in 1..4 : NUCLEOTIDES_STRICT[k] = b

\* The first strict base, in the order A, C, G, T, that symbol c stands for.
FirstStrictBase(c, b) ==
    /\ b \in NUCLEOTIDES_AMBIGUOUS(Upper(c))
    /\ \A b2 \in NUCLEOTIDES_AMBIGUOUS(Upper(c)) :
         StrictIndex(b) <= StrictIndex(b2)

\* C9 as amended: on one read the consensus list holds one string of the
\* read's length whose every character is the first strict base (in the
\* order A, C, G, T) that the read's upper-cased symbol stands for, so an
\* upper-case strict base is kept and an ambiguity code or a lower-case
\* letter is not; the assignment vector is [0].
C9_SingleFirstStrict ==
    (Len(sequences) = 1 /\ pc = "done") =>
        /\ Len(consensuses) = 1
        /\ Len(consensuses[1]) = Len(sequences[1])
        /\ \A p \in 1..Len(sequences[1]) :
             FirstStrictBase(sequences[1][p], consensuses[1][p])
        /\ assignments = <<0>>

\* C9 witness: a read with an ambiguity code that stands for no A has been
\* called.
C9_Witness ==
    /\ Len(sequences) = 1
    /\ pc = "done"
    /\ \E p \in 1..Len(sequences[1]) : sequences[1][p] \in {"Y", "S", "K", "B"}

----------------------------------------------------------------------------
(* Properties of correct_sequences_to_whitelist *)

\* The whitelist entries at ambiguity-aware Hamming distance 0 from string s.
ExactEntries(s) ==
    {w \in 1..Len(whitelist) : HammingDistance(s, whitelist[w]) = 0}

\* The whitelist entries within distance d of string s.
Neighbours(s) ==
    {w \in 1..Len(whitelist) : HammingDistance(s, whitelist[w]) <= d}

UniqueExact(k) == Cardinality(ExactEntries(sequences[k])) = 1

\* C1: a read at distance 0 from exactly one whitelist entry is corrected to
\* that entry at every occurrence, whatever its qualities, d and the
\* confidence threshold.
C1_ExactMatchCorrected ==
    pc = "done" =>
        \A k \in 1..Len(sequences) : \A w \in 1..Len(whitelist) :
            ExactEntries(sequences[k]) = {w} => corrections[k] = whitelist[w]

\* C1 witness: the call has returned for a read whose only exact match is
\* not its first neighbour.
C1_Witness ==
    /\ pc = "done"
    /\ \E k \in 1..Len(sequences) :
         /\ ExactEntries(sequences[k]) = {2}
         /\ 1 \in Neighbours(sequences[k])

\* C2: the returned list has one entry per read, each either None or a
\* whitelist entry within distance d of the read at that position.
C2_CorrectionsWithinDistance ==
    pc = "done" =>
        /\ Len(corrections) = Len(sequences)
        /\ \A k \in 1..Len(sequences) :
             \/ corrections[k] = None
             \/ \E w \in 1..Len(whitelist) :
                  /\ corrections[k] = whitelist[w]
                  /\ HammingDistance(sequences[k], whitelist[w]) <= d

\* C2 witness: the call has returned with d = 0, one read corrected and one
\* read, which has no whitelist entry within d, left unresolved.
C2_Witness ==
    /\ pc = "done"
    /\ d = 0
    /\ \E k \in 1..Len(sequences) : corrections[k] # None
    /\ \E k \in 1..Len(sequences) :
         corrections[k] = None /\ Neighbours(sequences[k]) = {}

\* The likelihood of whitelist entry w for read k: its prior and the summed
\* quality of the read at the positions where it mismatches w.
TrueLikelihood(k, w) ==
    [m |-> whitelist_counts[w] + 1,
     e |-> MaskedQualitySum(
              qualities[k],
              MismatchMask(SequenceToArray(sequences[k], Len(sequences[k])),
                           SequenceToArray(whitelist[w], Len(whitelist[w]))),
              <<>>, 1)]

SetToSeq(S) == SelectSeq2(Tup([w \in 1..Len(whitelist) |-> w], Len(whitelist)),
                          Tup([w \in 1..Len(whitelist) |-> w \in S], Len(whitelist)))

\* The likelihoods of all the neighbours of read k.
NeighbourLikelihoods(k) ==
    LET ns == SetToSeq(Neighbours(sequences[k]))
    IN Tup([j \in 1..Len(ns) |-> TrueLikelihood(k, ns[j])], Len(ns))

\* C3 as stated: a read not corrected by a unique exact match is corrected
\* only if it has a neighbour within d and the likelihood of its best
\* neighbour over the sum of the likelihoods of all its neighbours is at
\* least c.
C3_ConfidenceRule ==
    pc = "done" =>
        \A k \in 1..Len(sequences) :
            (~UniqueExact(k) /\ corrections[k] # None) =>
                /\ Neighbours(sequences[k]) # {}
                /\ LET liks == NeighbourLikelihoods(k)
                   IN ConfidenceAtLeast(liks[ArgBest(liks)], liks, confidence)

\* C4 as stated: the entry chosen in the probabilistic phase has the greatest
\* likelihood among all the neighbours of the read.
C4_MaximumLikelihood ==
    pc = "done" =>
        \A k \in 1..Len(sequences) :
            (~UniqueExact(k) /\ corrections[k] # None) =>
                \E w \in Neighbours(sequences[k]) :
                    /\ corrections[k] = whitelist[w]
                    /\ \A w2 \in Neighbours(sequences[k]) :
                         ~LikGreater(TrueLikelihood(k, w2), TrueLikelihood(k, w))

\* The first loop run on the tasks' outputs in input order, with no parallel
\* map in between: counts and matches after the first u distinct reads.
RECURSIVE SequentialConsume(_)
SequentialConsume(u) ==
    IF u = 0
    THEN [counts |-> Tup([w \in 1..Len(whitelist) |-> 0], Len(whitelist)),
          matches |-> <<>>,
          cache |-> <<>>]
    ELSE LET before == SequentialConsume(u - 1)
             one == ConsumeOne(before.counts, WorkerTask(u))
         IN [counts |-> one.counts,
             matches |-> Append(before.matches, one.match),
             cache |-> Append(before.cache, WorkerTask(u))]

\* The corrections of that sequential run (a read past the end of the
\* qualities finding 0).
SequentialCorrections ==
    LET c == SequentialConsume(Len(UniqueSequences))
    IN Tup([k \in 1..Len(sequences) |->
              IF c.matches[UniqueIndex(sequences[k])] # None
              THEN c.matches[UniqueIndex(sequences[k])]
              ELSE CorrectOne(k, c.cache, c.counts,
                              [p \in 1..(Len(whitelist) * Len(sequences[k])) |-> 0])],
           Len(sequences))

\* C7: whatever the number of workers and the order in which they complete,
\* the empirical counts, the exact-match table and the returned corrections
\* are those of the sequential run.
C7_ScheduleIndependent ==
    /\ pc \in {"correct", "done"} =>
         /\ whitelist_counts = SequentialConsume(Len(UniqueSequences)).counts
         /\ matches = SequentialConsume(Len(UniqueSequences)).matches
    /\ pc = "done" => corrections = SequentialCorrections

\* C7 witness: the call has returned after two workers completed their
\* tasks in the reverse of the input order, and it corrected a read.
C7_Witness ==
    /\ pc = "done"
    /\ n_threads >= 2
    /\ Len(finished) >= 2
    /\ finished[1] = 2
    /\ finished[2] = 1
    /\ \E k \in 1..Len(sequences) : corrections[k] # None

RECURSIVE Factorial(_)
Factorial(n) == IF n = 0 THEN 1 ELSE n * Factorial(n - 1)

\* Factorial(M) times the empirical count a whitelist entry should have: every
\* distinct read at distance 0 from it adds its number of occurrences divided
\* by the number of entries it is at distance 0 from.
ExpectedCountTimes(w) ==
    SumSeq(Tup([u \in 1..Len(UniqueSequences) |->
                  IF w \in ExactEntries(UniqueSequences[u])
                  THEN Count(UniqueSequences[u])
                       * (Factorial(Len(whitelist))
                          \div Cardinality(ExactEntries(UniqueSequences[u])))
                  ELSE 0], Len(UniqueSequences)))

\* C10 as stated: after the exact-match phase the empirical count of every
\* whitelist entry is the sum, over the distinct reads at distance 0 from it,
\* of occurrences / number of entries at distance 0; a read at distance 0
\* from several entries gets no correction in this phase.
C10_EmpiricalCounts ==
    pc \in {"correct", "done"} =>
        /\ \A w \in 1..Len(whitelist) :
             whitelist_counts[w] * Factorial(Len(whitelist)) = ExpectedCountTimes(w)
        /\ \A u \in 1..Len(UniqueSequences) :
             Cardinality(ExactEntries(UniqueSequences[u])) > 1 => matches[u] = None

====
